---- MODULE Spec2Model ----
(***************************************************************************)
(* A model of flakectl's classification orchestrator                       *)
(* (src/src/flakectl/classify.py) and of the progress.md helpers it is     *)
(* built on (also src/src/flakectl/progressfile.py).                       *)
(*                                                                         *)
(* Files are sequences of tokens, one token per marker or field line, and  *)
(* the regular expressions of the code are evaluated on those sequences:   *)
(* a lazy ".*?" under re.DOTALL runs to the first later token that lets    *)
(* the rest of the pattern match, whatever markers lie in between.         *)
(***************************************************************************)
EXTENDS Naturals, Sequences, FiniteSets, TLC

VARIABLES
  doc,        \* progress.md, the Document
  runFile,    \* runs/run-<rid>.md, the private file of each run
  last,       \* the last helper call: its arguments, the Document before it, its outcome
  nops,       \* helper calls made so far (helper specification)
  sup,        \* where run_orchestrator / _classify_all stands
  pc,         \* where the current _run_and_merge task of each run stands
  running,    \* the coroutine the event loop is executing, "none" between two of them
  lock,       \* merge_lock: the run whose task holds it, "" when free
  snap,       \* merge_run's local `content` in each task
  retries,    \* _classify_all's retries
  merged,     \* _classify_all's merged
  prev_progress, \* _classify_all's prev_progress
  elapsed,    \* polls (30 s sleeps) since last_progress_time
  todo,       \* the straggler sweep: the runs still to merge, by loop
  done_ret,   \* the sweep's `done`, returned by _classify_all
  unfinished, \* run_orchestrator's unfinished
  pending0    \* run_orchestrator's `pending`

(***************************************************************************)
(* Bounds of the model.                                                    *)
(***************************************************************************)
NumRuns == 2     \* work items (runs) in the Document
MaxOps == 2      \* helper calls in a row in the helper specification
StalePolls == 2  \* stale_timeout_min, counted in polls of 30 s

\* _classify_all's max_retries
max_retries == 2

\* The run ids, in Document order.
RunOrder == SubSeq(<<"1", "2", "3", "4">>, 1, NumRuns)
RunIds == {RunOrder[i] : i \in 1..NumRuns}

(***************************************************************************)
(* Tokens.                                                                 *)
(***************************************************************************)
Tok(k, a, b) == [k |-> k, a |-> a, b |-> b]
BeginTok(rid) == Tok("BEGIN", rid, "")
EndTok(rid) == Tok("END", rid, "")
StatusTok(s) == Tok("STATUS", s, "")
JobTok(n) == Tok("JOB", n, "")
CatTok(c) == Tok("CAT", c, "")
SumTok(f) == Tok("SUM", f, "")
CatStartTok == Tok("CS", "", "")
CatEndTok == Tok("CE", "", "")
NoneYetTok == Tok("NONE", "", "")
IdxTok(key, desc) == Tok("IDX", key, desc)
SepTok == Tok("SEP", "", "")
NlTok == Tok("NL", "", "")

Statuses == {"pending", "classified", "done", "error"}

Min(S) == CHOOSE x \in S : \A y \in S : x <= y

SeqToSet(seq) == {seq[i] : i \in 1..Len(seq)}

\* sorted(S), as a list
RECURSIVE Sorted(_, _)
Sorted(order, S) ==
  IF order = <<>> THEN <<>>
  ELSE (IF Head(order) \in S THEN <<Head(order)>> ELSE <<>>) \o Sorted(Tail(order), S)

(***************************************************************************)
(* Text of a free-text field, by what re's replacement template does to    *)
(* it: "plain" holds no backslash; "bad" holds a backslash followed by an  *)
(* ASCII letter that is no template escape, such as \d; "dbl" holds an     *)
(* escaped backslash before such a letter, \\d; "gref" holds the group     *)
(* reference \1.                                                           *)
(***************************************************************************)
Flavors == {"", "plain", "bad", "dbl", "gref"}

\* re's template parser raises re.error on a bad escape.
TemplateRaises(toks) ==
  \E i \in 1..Len(toks) :
     \/ toks[i].k = "SUM" /\ toks[i].a = "bad"
     \/ toks[i].k = "IDX" /\ toks[i].b = "bad"

\* One token of a template expanded: \\ becomes \, \1 becomes group 1.
ExpandTok(t, group1) ==
  IF t.k = "SUM" /\ t.a = "dbl" THEN <<SumTok("bad")>>
  ELSE IF t.k = "SUM" /\ t.a = "gref" THEN <<SumTok("plain")>> \o group1
  ELSE IF t.k = "IDX" /\ t.b = "dbl" THEN <<IdxTok(t.a, "bad")>>
  ELSE <<t>>

RECURSIVE ExpandTemplate(_, _)
ExpandTemplate(toks, group1) ==
  IF toks = <<>> THEN <<>>
  ELSE ExpandTok(Head(toks), group1) \o ExpandTemplate(Tail(toks), group1)

(***************************************************************************)
(* The patterns.                                                           *)
(***************************************************************************)
\* "(<!-- BEGIN RUN rid -->.*?<!-- END RUN rid -->)" searched in content:
\* <<first, last>> positions of the match, <<0, 0>> when there is none.
FindRecord(content, rid) ==
  LET bs == {i \in 1..Len(content) :
               /\ content[i] = BeginTok(rid)
               /\ \E j \in (i+1)..Len(content) : content[j] = EndTok(rid)}
  IN IF bs = {} THEN <<0, 0>>
     ELSE LET i == Min(bs)
              j == Min({j \in (i+1)..Len(content) : content[j] = EndTok(rid)})
          IN <<i, j>>

\* re.findall(RUN_BLOCK_RE, content, re.DOTALL) from position pos on: the
\* sequence of (rid, body) of the non-overlapping matches, left to right.
RECURSIVE RunBlocksFrom(_, _)
RunBlocksFrom(content, pos) ==
  LET starts == {i \in pos..Len(content) :
                   /\ content[i].k = "BEGIN"
                   /\ \E j \in (i+1)..Len(content) : content[j] = EndTok(content[i].a)}
  IN IF starts = {} THEN <<>>
     ELSE LET i == Min(starts)
              j == Min({j \in (i+1)..Len(content) : content[j] = EndTok(content[i].a)})
          IN <<[rid |-> content[i].a, body |-> SubSeq(content, i+1, j-1)]>>
             \o RunBlocksFrom(content, j+1)

RunBlocks(content) == RunBlocksFrom(content, 1)

\* re.search(r"- \*\*status\*\*: " + re.escape(status), body)
StatusSearch(body, status) ==
  \E i \in 1..Len(body) : body[i].k = "STATUS" /\ body[i].a = status

RECURSIVE SelectRids(_, _)
SelectRids(blocks, status) ==
  IF blocks = <<>> THEN <<>>
  ELSE (IF StatusSearch(Head(blocks).body, status) THEN <<Head(blocks).rid>> ELSE <<>>)
       \o SelectRids(Tail(blocks), status)

get_runs_by_status(content, status) == SelectRids(RunBlocks(content), status)

InSeq(x, s) == \E i \in 1..Len(s) : s[i] = x

is_run_done(content, rid) == InSeq(rid, get_runs_by_status(content, "done"))
is_run_classified(content, rid) == InSeq(rid, get_runs_by_status(content, "classified"))

(***************************************************************************)
(* mark_runs_as_error                                                      *)
(***************************************************************************)
\* re.sub(r"(<!-- BEGIN RUN rid -->.*?)- \*\*status\*\*: " + frm, r"\1- **status**: " + to,
\*        content, count=1, flags=re.DOTALL)
SubStatusAfterBegin(content, rid, frm, to) ==
  LET bs == {i \in 1..Len(content) :
               /\ content[i] = BeginTok(rid)
               /\ \E j \in (i+1)..Len(content) : content[j] = StatusTok(frm)}
  IN IF bs = {} THEN content
     ELSE LET i == Min(bs)
              j == Min({j \in (i+1)..Len(content) : content[j] = StatusTok(frm)})
          IN [content EXCEPT ![j] = StatusTok(to)]

RECURSIVE mark_runs_as_error(_, _)
mark_runs_as_error(content, ids) ==
  IF ids = <<>> THEN content
  ELSE mark_runs_as_error(SubStatusAfterBegin(content, Head(ids), "pending", "error"),
                          Tail(ids))

(***************************************************************************)
(* merge_run: the outcome ret is "True", "False" or "raise" (re.error);    *)
(* wrote tells whether the call wrote the Document, and out is what it     *)
(* wrote (the content it read, when it wrote nothing).                     *)
(***************************************************************************)
Outcome(ret, out, wrote) == [ret |-> ret, out |-> out, wrote |-> wrote]

\* merge_run with a Document pattern that runs on to the last END marker of
\* the Document instead of stopping at rid's own.
merge_run_greedy(content, run_content, rid, expected_status) ==
  LET m == FindRecord(run_content, rid)
  IN IF m = <<0, 0>> THEN Outcome("False", content, FALSE)
     ELSE
       LET repl == SubSeq(run_content, m[1], m[2])
           d == FindRecord(content, rid)
           e == {j \in 1..Len(content) : content[j].k = "END"}
       IN IF TemplateRaises(repl) THEN Outcome("raise", content, FALSE)
          ELSE IF d = <<0, 0>> THEN Outcome("False", content, FALSE)
          ELSE
            LET z == CHOOSE j \in e : \A i \in e : i <= j
                new_content ==
                  SubSeq(content, 1, d[1] - 1)
                  \o ExpandTemplate(repl, SubSeq(content, d[1], z))
                  \o SubSeq(content, z + 1, Len(content))
            IN IF InSeq(rid, get_runs_by_status(new_content, expected_status))
               THEN Outcome("True", new_content, TRUE)
               ELSE Outcome("False", new_content, TRUE)

merge_run(content, run_content, rid, expected_status) ==
  LET m == FindRecord(run_content, rid)
  IN IF m = <<0, 0>> THEN Outcome("False", content, FALSE)
     ELSE
       LET repl == SubSeq(run_content, m[1], m[2])
           d == FindRecord(content, rid)
       IN IF TemplateRaises(repl) THEN Outcome("raise", content, FALSE)
          ELSE IF d = <<0, 0>> THEN Outcome("False", content, FALSE)
          ELSE
            LET new_content ==
                  SubSeq(content, 1, d[1] - 1)
                  \o ExpandTemplate(repl, SubSeq(content, d[1], d[2]))
                  \o SubSeq(content, d[2] + 1, Len(content))
            IN IF InSeq(rid, get_runs_by_status(new_content, expected_status))
               THEN Outcome("True", new_content, TRUE)
               ELSE Outcome("False", new_content, TRUE)

(***************************************************************************)
(* rebuild_categories_section                                              *)
(***************************************************************************)
\* parse_field(text, field): the value of the first line of that field, "" when
\* there is none.
parse_field(toks, kind) ==
  LET ps == {i \in 1..Len(toks) : toks[i].k = kind}
  IN IF ps = {} THEN "" ELSE toks[Min(ps)].a

\* Category values of the model.
CategoryValues ==
  {"", "infra-flake/net", "test-flake/timeout", "test-flake/timeout/1", "flaky/x"}

VALID_CATEGORY_PREFIXES == {"test-flake/", "infra-flake/", "bug/", "build-error/"}

\* The text of a category value up to its first slash.
CatPrefix(cat_val) ==
  CASE cat_val = "infra-flake/net" -> "infra-flake/"
    [] cat_val \in {"test-flake/timeout", "test-flake/timeout/1"} -> "test-flake/"
    [] cat_val = "flaky/x" -> "flaky/"
    [] OTHER -> ""

\* cat_val.startswith(VALID_CATEGORY_PREFIXES)
StartsWithValid(cat_val) == CatPrefix(cat_val) \in VALID_CATEGORY_PREFIXES

\* "/".join(parts[:2])
CatKey(cat_val) ==
  IF cat_val = "test-flake/timeout/1" THEN "test-flake/timeout" ELSE cat_val

\* sorted(cats)
SortedKeys == <<"infra-flake/net", "test-flake/timeout">>

\* summary[:117] + "..." when it is longer than 120 characters
Truncate(summary) == IF summary = "long" THEN "long117" ELSE summary

\* re.findall(job_pattern, body, re.DOTALL): the text after each job heading,
\* up to the next heading or the end of the body.
RECURSIVE JobBodiesFrom(_, _)
JobBodiesFrom(body, pos) ==
  LET js == {i \in pos..Len(body) : body[i].k = "JOB"}
  IN IF js = {} THEN <<>>
     ELSE LET i == Min(js)
              nx == {j \in (i+1)..Len(body) : body[j].k = "JOB"}
              e == IF nx = {} THEN Len(body) ELSE Min(nx) - 1
          IN <<SubSeq(body, i+1, e)>> \o JobBodiesFrom(body, e+1)

\* The inner loop: cats after the jobs of one run block.
RECURSIVE CatsOfJobs(_, _)
CatsOfJobs(jobs, cats) ==
  IF jobs = <<>> THEN cats
  ELSE LET cat_val == parse_field(Head(jobs), "CAT")
           cat_key == CatKey(cat_val)
       IN IF cat_val = "" \/ ~StartsWithValid(cat_val)
          THEN CatsOfJobs(Tail(jobs), cats)
          ELSE IF cat_key \in DOMAIN cats
          THEN CatsOfJobs(Tail(jobs), cats)
          ELSE CatsOfJobs(Tail(jobs),
                          cats @@ (cat_key :> Truncate(parse_field(Head(jobs), "SUM"))))

\* The outer loop: cats after the run blocks.
RECURSIVE CatsOfBlocks(_, _)
CatsOfBlocks(blocks, cats) ==
  IF blocks = <<>> THEN cats
  ELSE IF parse_field(Head(blocks).body, "STATUS") \notin {"done", "classified"}
  THEN CatsOfBlocks(Tail(blocks), cats)
  ELSE CatsOfBlocks(Tail(blocks),
                    CatsOfJobs(JobBodiesFrom(Head(blocks).body, 1), cats))

RECURSIVE SectionLines(_, _)
SectionLines(keys, cats) ==
  IF keys = <<>> THEN <<>>
  ELSE (IF Head(keys) \in DOMAIN cats
        THEN <<IdxTok(Head(keys), cats[Head(keys)])>> ELSE <<>>)
       \o SectionLines(Tail(keys), cats)

\* The replacement template of the section has no group: \1 in it is an
\* invalid group reference, and raises like a bad escape.
SectionRaises(section) ==
  \E i \in 1..Len(section) : section[i].k = "IDX" /\ section[i].b \in {"bad", "gref"}

\* "<!-- CATEGORIES START -->.*?<!-- CATEGORIES END -->" searched in content.
FindCategories(content) ==
  LET bs == {i \in 1..Len(content) :
               /\ content[i] = CatStartTok
               /\ \E j \in (i+1)..Len(content) : content[j] = CatEndTok}
  IN IF bs = {} THEN <<0, 0>>
     ELSE LET i == Min(bs)
          IN <<i, Min({j \in (i+1)..Len(content) : content[j] = CatEndTok})>>

\* A rebuild that writes the new entries in front of the old ones.
rebuild_categories_section_append(content) ==
  LET cats == CatsOfBlocks(RunBlocks(content), <<>>)
      section == IF DOMAIN cats # {} THEN SectionLines(SortedKeys, cats)
                 ELSE <<NoneYetTok>>
      c == FindCategories(content)
  IN IF SectionRaises(section) THEN Outcome("raise", content, FALSE)
     ELSE IF c = <<0, 0>> THEN Outcome("None", content, TRUE)
     ELSE Outcome("None",
                  SubSeq(content, 1, c[1])
                  \o ExpandTemplate(section, <<>>)
                  \o SubSeq(content, c[1] + 1, Len(content)),
                  TRUE)

\* ret is "None" or "raise" (re.error); out is the Document left on disk.
rebuild_categories_section(content) ==
  LET cats == CatsOfBlocks(RunBlocks(content), <<>>)
      section == IF DOMAIN cats # {} THEN SectionLines(SortedKeys, cats)
                 ELSE <<NoneYetTok>>
      c == FindCategories(content)
  IN IF SectionRaises(section) THEN Outcome("raise", content, FALSE)
     ELSE IF c = <<0, 0>> THEN Outcome("None", content, TRUE)
     ELSE Outcome("None",
                  SubSeq(content, 1, c[1])
                  \o ExpandTemplate(section, <<>>)
                  \o SubSeq(content, c[2], Len(content)),
                  TRUE)

\* A split that returns a file for every requested id, record or not.
split_progress_all(content, ids) ==
  [rid \in {r \in RunIds : InSeq(r, ids)} |->
     LET m == FindRecord(content, rid)
     IN IF m = <<0, 0>> THEN <<NlTok>> ELSE SubSeq(content, m[1], m[2]) \o <<NlTok>>]

(***************************************************************************)
(* split_progress: the private file of each requested run that has a       *)
(* record, the record followed by a newline.                               *)
(***************************************************************************)
split_progress(content, ids) ==
  [rid \in {r \in RunIds : InSeq(r, ids) /\ FindRecord(content, r) # <<0, 0>>} |->
     LET m == FindRecord(content, rid) IN SubSeq(content, m[1], m[2]) \o <<NlTok>>]

\* promote_run_status(path, rid, "classified", "done"), inlined in the sweep
promote_run_status(content, rid) == SubStatusAfterBegin(content, rid, "classified", "done")

(***************************************************************************)
(* Documents and private files.                                            *)
(***************************************************************************)
\* progress.py: the head of progress.md, with the empty Categories section.
Header == <<CatStartTok, NoneYetTok, CatEndTok, SepTok>>

\* One run block: markers, status line, then the job subsections.
Rec(rid, status, body) == <<BeginTok(rid), StatusTok(status)>> \o body \o <<EndTok(rid)>>

\* One job subsection.
JobBody(cat, sum) == <<JobTok("j1"), CatTok(cat), SumTok(sum)>>

\* The Document with the given block (<<>> for none) per run, in order.
RECURSIVE DocOf(_, _)
DocOf(order, blocks) ==
  IF order = <<>> THEN <<>>
  ELSE (IF blocks[Head(order)] = <<>> THEN <<>> ELSE blocks[Head(order)] \o <<SepTok>>)
       \o DocOf(Tail(order), blocks)

\* The record of rid in content as the code's pattern finds it, <<>> if none.
extract_record(content, rid) ==
  LET m == FindRecord(content, rid)
  IN IF m = <<0, 0>> THEN <<>> ELSE SubSeq(content, m[1], m[2])

\* The status field of rid's record, "" when there is no record.
StatusOf(content, rid) == parse_field(extract_record(content, rid), "STATUS")

NoCall ==
  [op |-> "none", rid |-> "", ids |-> <<>>, expected |-> "", before |-> <<>>,
   file |-> <<>>, ret |-> "", res |-> <<>>]

mainVars ==
  <<sup, pc, running, lock, snap, retries, merged, prev_progress, elapsed,
    todo, done_ret, unfinished, pending0>>

NoTodo == [done |-> {}, classified |-> {}]

\* Before run_orchestrator is called.
MainIdle ==
  /\ sup = "init"
  /\ pc = [r \in RunIds |-> "none"]
  /\ running = "none"
  /\ lock = ""
  /\ snap = [r \in RunIds |-> <<>>]
  /\ retries = [r \in RunIds |-> 0]
  /\ merged = {}
  /\ prev_progress = 0
  /\ elapsed = 0
  /\ todo = NoTodo
  /\ done_ret = {}
  /\ unfinished = {}
  /\ pending0 = <<>>

(***************************************************************************)
(* The helper specification: one Document and one private file drawn from  *)
(* bounded sets, then up to MaxOps helper calls.                           *)
(***************************************************************************)
\* The last block but one is a pending record whose free text quotes the
\* line "- **status**: done": to the patterns of the code, none of which is
\* anchored to a line start, such a line is a status line.  The last block
\* is a done record whose free text holds an escaped backslash.
OpsBlocks(rid) ==
  {Rec(rid, s, JobBody("", "")) : s \in Statuses}
  \cup {Rec(rid, "pending", JobBody("", "") \o <<StatusTok("done")>>)}
  \cup {Rec(rid, "done", JobBody("test-flake/timeout", "dbl"))}
  \cup {Rec(rid, s, JobBody("test-flake/timeout", "plain")) : s \in {"classified", "done"}}
  \cup {<<>>}

OpsFiles(rid) ==
  {Rec(rid, s, JobBody("test-flake/timeout", f)) \o <<NlTok>> :
     s \in {"classified", "done"}, f \in {"plain", "bad", "dbl", "gref"}}
  \cup {Rec(rid, "pending", JobBody("", "")) \o <<NlTok>>,
        <<BeginTok(rid), StatusTok("done"), NlTok>>,
        <<>>}

\* The lists of distinct run ids.
IdLists ==
  {ids \in UNION {[1..n -> RunIds] : n \in 1..NumRuns} :
     \A i, j \in 1..Len(ids) : i # j => ids[i] # ids[j]}

OpsInit ==
  /\ \E blocks \in [RunIds -> UNION {OpsBlocks(r) : r \in RunIds}] :
       /\ \A r \in RunIds : blocks[r] \in OpsBlocks(r)
       /\ doc = Header \o DocOf(RunOrder, blocks)
  /\ \E t \in RunIds : \E f \in OpsFiles(t) :
       runFile = [r \in RunIds |-> IF r = t THEN f ELSE <<>>]
  /\ last = NoCall
  /\ nops = 0
  /\ MainIdle

OpMarkError(ids) ==
  /\ nops < MaxOps
  /\ doc' = mark_runs_as_error(doc, ids)
  /\ last' = [NoCall EXCEPT !.op = "mark", !.ids = ids, !.before = doc, !.ret = "None"]
  /\ nops' = nops + 1
  /\ UNCHANGED <<runFile, mainVars>>

OpMerge(rid, expected) ==
  /\ nops < MaxOps
  /\ LET o == merge_run(doc, runFile[rid], rid, expected)
     IN /\ doc' = o.out
        /\ last' = [NoCall EXCEPT !.op = "merge", !.rid = rid, !.expected = expected,
                                  !.before = doc, !.file = runFile[rid], !.ret = o.ret]
  /\ nops' = nops + 1
  /\ UNCHANGED <<runFile, mainVars>>

\* get_runs_by_status(path, status); res is the list returned.
OpScan(status) ==
  /\ nops < MaxOps
  /\ last' = [NoCall EXCEPT !.op = "scan", !.expected = status, !.before = doc,
                            !.res = get_runs_by_status(doc, status)]
  /\ nops' = nops + 1
  /\ UNCHANGED <<doc, runFile, mainVars>>

\* The requested ids that are keys of run_files, in the order of insertion.
RECURSIVE KeysIn(_, _)
KeysIn(ids, run_files) ==
  IF ids = <<>> THEN <<>>
  ELSE (IF Head(ids) \in DOMAIN run_files THEN <<Head(ids)>> ELSE <<>>)
       \o KeysIn(Tail(ids), run_files)

\* split_progress(path, ids); res is the list of keys of the map returned.
OpSplit(ids) ==
  /\ nops < MaxOps
  /\ LET run_files == split_progress(doc, ids)
     IN /\ runFile' = [r \in RunIds |->
                         IF r \in DOMAIN run_files THEN run_files[r] ELSE runFile[r]]
        /\ last' = [NoCall EXCEPT !.op = "split", !.ids = ids, !.before = doc,
                                  !.res = KeysIn(ids, run_files)]
  /\ nops' = nops + 1
  /\ UNCHANGED <<doc, mainVars>>

OpsNext ==
  \/ \E ids \in IdLists : OpMarkError(ids)
  \/ \E rid \in RunIds, expected \in {"classified", "done"} : OpMerge(rid, expected)
  \/ \E status \in Statuses : OpScan(status)
  \/ \E ids \in IdLists : OpSplit(ids)

vars == <<doc, runFile, last, nops, mainVars>>

SpecOps == OpsInit /\ [][OpsNext]_vars

(***************************************************************************)
(* The index specification: a Document drawn from a bounded set of run     *)
(* blocks with one or two jobs and a Categories section that may hold an   *)
(* entry no record supports, then up to MaxOps rebuilds.                   *)
(***************************************************************************)
\* One job subsection with its own name.
Job(n, cat, sum) == <<JobTok(n), CatTok(cat), SumTok(sum)>>

\* The job lists of the classified and done blocks.
IdxJobLists ==
  {Job("j1", "test-flake/timeout", "plain"),
   Job("j1", "test-flake/timeout", ""),
   Job("j1", "test-flake/timeout/1", "other"),
   Job("j1", "infra-flake/net", "long"),
   Job("j1", "infra-flake/net", "bad"),
   Job("j1", "flaky/x", "plain"),
   Job("j1", "", ""),
   Job("j1", "test-flake/timeout", "") \o Job("j2", "test-flake/timeout/1", "other"),
   Job("j1", "test-flake/timeout/1", "other") \o Job("j2", "test-flake/timeout", "plain"),
   Job("j1", "flaky/x", "plain") \o Job("j2", "infra-flake/net", "dbl")}

IdxBlocks(rid) ==
  {Rec(rid, s, b) : s \in {"classified", "done"}, b \in IdxJobLists}
  \cup {Rec(rid, s, Job("j1", "test-flake/timeout", "plain")) : s \in {"pending", "error"}}
  \cup {Rec(rid, "pending", Job("j1", "", ""))}
  \cup {<<>>}

\* The heads: as progress.py writes it, and with an entry left by an earlier run.
IdxHeaders ==
  {Header,
   <<CatStartTok, IdxTok("infra-flake/net", "old"), CatEndTok, SepTok>>}

IdxInit ==
  /\ \E blocks \in [RunIds -> UNION {IdxBlocks(r) : r \in RunIds}] :
       /\ \A r \in RunIds : blocks[r] \in IdxBlocks(r)
       /\ \E h \in IdxHeaders : doc = h \o DocOf(RunOrder, blocks)
  /\ runFile = [r \in RunIds |-> <<>>]
  /\ last = NoCall
  /\ nops = 0
  /\ MainIdle

OpRebuild ==
  /\ nops < MaxOps
  /\ LET o == rebuild_categories_section(doc)
     IN /\ doc' = IF o.wrote THEN o.out ELSE doc
        /\ last' = [NoCall EXCEPT !.op = "rebuild", !.before = doc, !.ret = o.ret]
  /\ nops' = nops + 1
  /\ UNCHANGED <<runFile, mainVars>>

IdxNext == OpRebuild

SpecIdx == IdxInit /\ [][IdxNext]_vars

(***************************************************************************)
(* The run: run_orchestrator, _classify_all, one _run_and_merge task per   *)
(* run and the agent behind each task.                                     *)
(*                                                                         *)
(* asyncio runs one coroutine at a time and switches only where a          *)
(* coroutine awaits: `running` names the coroutine that holds the thread,  *)
(* and a step of another coroutine needs running = "none".  An agent works *)
(* on its private file from the prompt to the result event of a phase, and *)
(* its session ends with its task.                                         *)
(* The close of the session on the way out of _run_and_merge is part of   *)
(* the step that ends the task.                                            *)
(***************************************************************************)
\* What an agent may leave in its private file.  The last one is a classified
\* record whose free text quotes the line "- **status**: done".
AgentFiles(rid) ==
  {Rec(rid, "pending", JobBody("", "")) \o <<NlTok>>,
   Rec(rid, "classified", JobBody("test-flake/timeout", "plain")) \o <<NlTok>>,
   Rec(rid, "classified", JobBody("test-flake/timeout", "bad")) \o <<NlTok>>,
   Rec(rid, "done", JobBody("test-flake/timeout", "plain")) \o <<NlTok>>,
   Rec(rid, "done", JobBody("infra-flake/net", "dbl")) \o <<NlTok>>,
   Rec(rid, "classified",
       JobBody("test-flake/timeout", "plain") \o <<StatusTok("done")>>) \o <<NlTok>>}

\* The Documents a run starts from: each run pending as progress.py writes it,
\* or done or marked as error by an earlier run of the orchestrator.
StartDocs ==
  {rebuild_categories_section(
     Header \o DocOf(RunOrder,
       [r \in RunIds |->
          IF st[r] \in {"pending", "error"} THEN Rec(r, st[r], JobBody("", ""))
          ELSE Rec(r, "done", JobBody("test-flake/timeout", "plain"))])).out :
   st \in [RunIds -> {"pending", "done", "error"}]}

Init ==
  /\ doc \in StartDocs
  /\ runFile = [r \in RunIds |-> <<>>]
  /\ last = NoCall
  /\ nops = 0
  /\ MainIdle

\* run_id_set
RunIdSet == {r \in RunIds : pc[r] # "none"}

\* A poll loop that takes every task for finished.
TaskDone_Always(p, rid) == TRUE

\* tasks[rid].done()
TaskDone(p, rid) == p[rid] = "fin"

\* run_orchestrator up to the first sleep of _classify_all's loop.
RunStart ==
  /\ sup = "init"
  /\ LET pending == get_runs_by_status(doc, "pending")
         run_files == split_progress(doc, pending)
         run_ids == {r \in SeqToSet(pending) : r \in DOMAIN run_files}
         missing == Sorted(RunOrder, SeqToSet(pending) \ run_ids)
     IN /\ pending0' = pending
        /\ doc' = IF missing # <<>> THEN mark_runs_as_error(doc, missing) ELSE doc
        /\ runFile' = [r \in RunIds |->
                         IF r \in DOMAIN run_files THEN run_files[r] ELSE runFile[r]]
        /\ unfinished' = SeqToSet(missing)
        /\ IF pending = <<>> \/ run_ids = {}
           THEN sup' = "returned" /\ pc' = pc
           ELSE /\ sup' = "sleep"
                /\ pc' = [r \in RunIds |-> IF r \in run_ids THEN "start" ELSE "none"]
  /\ UNCHANGED <<last, nops, running, lock, snap, retries, merged, prev_progress,
                 elapsed, todo, done_ret>>

\* The task opens its session and sends the classify prompt.
TaskStart(t) ==
  /\ running = "none"
  /\ pc[t] = "start"
  /\ pc' = [pc EXCEPT ![t] = "p1"]
  /\ UNCHANGED <<doc, runFile, last, nops, sup, running, lock, snap, retries, merged,
                 prev_progress, elapsed, todo, done_ret, unfinished, pending0>>

\* The agent edits its private file.
AgentWrite(t, f) ==
  /\ running = "none"
  /\ pc[t] \in {"p1", "p2"}
  /\ f # runFile[t]
  /\ runFile' = [runFile EXCEPT ![t] = f]
  /\ UNCHANGED <<doc, last, nops, sup, pc, running, lock, snap, retries, merged,
                 prev_progress, elapsed, todo, done_ret, unfinished, pending0>>

\* The session raises (open, query or event stream): except Exception ends the task.
Crash(t) ==
  /\ running = "none"
  /\ pc[t] \in {"start", "p1", "p2"}
  /\ pc' = [pc EXCEPT ![t] = "fin"]
  /\ UNCHANGED <<doc, runFile, last, nops, sup, running, lock, snap, retries, merged,
                 prev_progress, elapsed, todo, done_ret, unfinished, pending0>>

\* AfterEvents with a suspension point inside `async with merge_lock`: the
\* task gives up the thread once it holds the lock.
AfterEvents_Suspends(t, phase, wait, merge, complete) ==
  /\ running = "none"
  /\ pc[t] \in {phase, wait}
  /\ pc[t] = wait => lock = ""
  /\ IF pc[t] = phase /\ ~complete
     THEN /\ pc' = [pc EXCEPT ![t] = "fin"]
          /\ UNCHANGED <<lock, running>>
     ELSE IF lock = ""
     THEN /\ lock' = t
          /\ pc' = [pc EXCEPT ![t] = merge]
          /\ running' = "none"
     ELSE /\ pc' = [pc EXCEPT ![t] = wait]
          /\ UNCHANGED <<lock, running>>
  /\ UNCHANGED <<doc, runFile, last, nops, sup, snap, retries, merged,
                 prev_progress, elapsed, todo, done_ret, unfinished, pending0>>

\* A phase's event loop ends (result event or end of stream), or the task gets
\* the lock it waited for: the completion check, then `async with merge_lock`.
\* wait, merge: the labels of waiting for the lock and of holding it.
AfterEvents(t, phase, wait, merge, complete) ==
  /\ running = "none"
  /\ pc[t] \in {phase, wait}
  /\ pc[t] = wait => lock = ""
  /\ IF pc[t] = phase /\ ~complete
     THEN /\ pc' = [pc EXCEPT ![t] = "fin"]
          /\ UNCHANGED <<lock, running>>
     ELSE IF lock = ""
     THEN /\ lock' = t
          /\ pc' = [pc EXCEPT ![t] = merge]
          /\ running' = t
     ELSE /\ pc' = [pc EXCEPT ![t] = wait]
          /\ UNCHANGED <<lock, running>>
  /\ UNCHANGED <<doc, runFile, last, nops, sup, snap, retries, merged,
                 prev_progress, elapsed, todo, done_ret, unfinished, pending0>>

\* Result1 going on to the merge whatever the private file says.
Result1_AlwaysMerges(t) == AfterEvents(t, "p1", "l1", "m1", TRUE)

Result1(t) == AfterEvents(t, "p1", "l1", "m1", is_run_classified(runFile[t], t))

Result2(t) == AfterEvents(t, "p2", "l2", "m2", is_run_done(runFile[t], t))

\* merge_run giving up the thread between its read and its write.
MergeRead_Yields(t) ==
  /\ running = t
  /\ pc[t] \in {"m1", "m2"}
  /\ running' = "none"
  /\ snap' = [snap EXCEPT ![t] = doc]
  /\ pc' = [pc EXCEPT ![t] = IF pc[t] = "m1" THEN "w1" ELSE "w2"]
  /\ UNCHANGED <<doc, runFile, last, nops, sup, lock, retries, merged,
                 prev_progress, elapsed, todo, done_ret, unfinished, pending0>>

\* merge_run reads the Document.
MergeRead(t) ==
  /\ running = t
  /\ pc[t] \in {"m1", "m2"}
  /\ snap' = [snap EXCEPT ![t] = doc]
  /\ pc' = [pc EXCEPT ![t] = IF pc[t] = "m1" THEN "w1" ELSE "w2"]
  /\ UNCHANGED <<doc, runFile, last, nops, sup, running, lock, retries, merged,
                 prev_progress, elapsed, todo, done_ret, unfinished, pending0>>

\* AfterMerge without `if not ok: return`.
AfterMerge_Unchecked(label, ret) ==
  IF label = "w1" THEN "r1" ELSE "r2"

\* Where a task goes after merge_run, by phase and outcome.
AfterMerge(label, ret) ==
  IF ret # "True" THEN "fin" ELSE IF label = "w1" THEN "r1" ELSE "r2"

\* MergeWrite with the lock kept at the end of the merge.
MergeWrite_KeepsLock(t) ==
  /\ running = t
  /\ pc[t] \in {"w1", "w2"}
  /\ LET expected == IF pc[t] = "w1" THEN "classified" ELSE "done"
         o == merge_run(snap[t], runFile[t], t, expected)
         nxt == IF o.ret # "True" THEN "fin" ELSE IF pc[t] = "w1" THEN "r1" ELSE "r2"
     IN /\ doc' = IF o.wrote THEN o.out ELSE doc
        /\ merged' = IF pc[t] = "w2" /\ o.ret = "True" THEN merged \cup {t} ELSE merged
        /\ pc' = [pc EXCEPT ![t] = nxt]
        /\ running' = IF nxt = "fin" THEN "none" ELSE t
  /\ snap' = [snap EXCEPT ![t] = <<>>]
  /\ lock' = lock
  /\ UNCHANGED <<runFile, last, nops, sup, retries, prev_progress, elapsed, todo,
                 done_ret, unfinished, pending0>>

\* merge_run writes the Document and verifies; the lock is released.
MergeWrite(t) ==
  /\ running = t
  /\ pc[t] \in {"w1", "w2"}
  /\ LET expected == IF pc[t] = "w1" THEN "classified" ELSE "done"
         o == merge_run(snap[t], runFile[t], t, expected)
         nxt == AfterMerge(pc[t], o.ret)
     IN /\ doc' = IF o.wrote THEN o.out ELSE doc
        /\ merged' = IF pc[t] = "w2" /\ o.ret = "True" THEN merged \cup {t} ELSE merged
        /\ pc' = [pc EXCEPT ![t] = nxt]
        /\ running' = IF nxt = "fin" THEN "none" ELSE t
  /\ snap' = [snap EXCEPT ![t] = <<>>]
  /\ lock' = ""
  /\ UNCHANGED <<runFile, last, nops, sup, retries, prev_progress, elapsed, todo,
                 done_ret, unfinished, pending0>>

\* The task going on after its merge without the rebuild.
Rebuild_Skipped(t) ==
  /\ running = t
  /\ pc[t] \in {"r1", "r2"}
  /\ LET o == Outcome("None", doc, FALSE)
     IN /\ doc' = IF o.wrote THEN o.out ELSE doc
        /\ pc' = [pc EXCEPT ![t] = IF pc[t] = "r1" /\ o.ret = "None" THEN "p2" ELSE "fin"]
  /\ running' = "none"
  /\ UNCHANGED <<runFile, last, nops, sup, lock, snap, retries, merged,
                 prev_progress, elapsed, todo, done_ret, unfinished, pending0>>

\* _rebuild_categories_section after a merge; then the recheck prompt (phase
\* 1) or the end of the task (phase 2, or re.error caught).
Rebuild(t) ==
  /\ running = t
  /\ pc[t] \in {"r1", "r2"}
  /\ LET o == rebuild_categories_section(doc)
     IN /\ doc' = IF o.wrote THEN o.out ELSE doc
        /\ pc' = [pc EXCEPT ![t] = IF pc[t] = "r1" /\ o.ret = "None" THEN "p2" ELSE "fin"]
  /\ running' = "none"
  /\ UNCHANGED <<runFile, last, nops, sup, lock, snap, retries, merged,
                 prev_progress, elapsed, todo, done_ret, unfinished, pending0>>

Card(S) == Cardinality(S)

\* Poll relaunching a finished task whatever its retry count.
Poll_RelaunchUnbounded ==
  /\ running = "none"
  /\ sup = "sleep"
  /\ LET ids == RunIdSet
         done == {r \in ids : is_run_done(runFile[r], r)}
         classified == {r \in ids \ done : is_run_classified(runFile[r], r)}
         remaining == ids \ done
         relaunch == {r \in remaining : TaskDone(pc, r)}
         pc2 == [r \in RunIds |-> IF r \in relaunch THEN "start" ELSE pc[r]]
         current_progress == Card(done) + Card(classified) + Card(merged)
         now == IF elapsed < StalePolls + 1 THEN elapsed + 1 ELSE elapsed
     IN IF remaining = {}
        THEN /\ sup' = IF \A r \in ids : TaskDone(pc, r) THEN "cancel" ELSE "sleep"
             /\ elapsed' = now
             /\ UNCHANGED <<pc, retries, prev_progress>>
        ELSE /\ pc' = pc2
             /\ retries' = [r \in RunIds |->
                              IF r \in relaunch THEN retries[r] + 1 ELSE retries[r]]
             /\ IF \A r \in remaining : TaskDone(pc2, r)
                THEN /\ sup' = "cancel"
                     /\ elapsed' = now
                     /\ UNCHANGED prev_progress
                ELSE IF current_progress > prev_progress
                THEN /\ sup' = "sleep"
                     /\ elapsed' = 0
                     /\ prev_progress' = current_progress
                ELSE /\ sup' = IF now >= StalePolls THEN "cancel" ELSE "sleep"
                     /\ elapsed' = now
                     /\ UNCHANGED prev_progress
  /\ running' = IF sup' = "cancel" THEN "sup" ELSE "none"
  /\ UNCHANGED <<doc, runFile, last, nops, lock, snap, merged, todo, done_ret,
                 unfinished, pending0>>

\* One pass of _classify_all's monitoring loop, from the wake-up of
\* asyncio.sleep(30) to the next sleep or to the break.  The clock is counted
\* in polls and stops at StalePolls + 1.
Poll ==
  /\ running = "none"
  /\ sup = "sleep"
  /\ LET ids == RunIdSet
         done == {r \in ids : is_run_done(runFile[r], r)}
         classified == {r \in ids \ done : is_run_classified(runFile[r], r)}
         remaining == ids \ done
         relaunch == {r \in remaining : TaskDone(pc, r) /\ retries[r] < max_retries}
         pc2 == [r \in RunIds |-> IF r \in relaunch THEN "start" ELSE pc[r]]
         current_progress == Card(done) + Card(classified) + Card(merged)
         now == IF elapsed < StalePolls + 1 THEN elapsed + 1 ELSE elapsed
     IN IF remaining = {}
        THEN /\ sup' = IF \A r \in ids : TaskDone(pc, r) THEN "cancel" ELSE "sleep"
             /\ elapsed' = now
             /\ UNCHANGED <<pc, retries, prev_progress>>
        ELSE /\ pc' = pc2
             /\ retries' = [r \in RunIds |->
                              IF r \in relaunch THEN retries[r] + 1 ELSE retries[r]]
             /\ IF \A r \in remaining : TaskDone(pc2, r)
                THEN /\ sup' = "cancel"
                     /\ elapsed' = now
                     /\ UNCHANGED prev_progress
                ELSE IF current_progress > prev_progress
                THEN /\ sup' = "sleep"
                     /\ elapsed' = 0
                     /\ prev_progress' = current_progress
                ELSE /\ sup' = IF now >= StalePolls THEN "cancel" ELSE "sleep"
                     /\ elapsed' = now
                     /\ UNCHANGED prev_progress
  /\ running' = IF sup' = "cancel" THEN "sup" ELSE "none"
  /\ UNCHANGED <<doc, runFile, last, nops, lock, snap, merged, todo, done_ret,
                 unfinished, pending0>>

\* The end of the loop without task.cancel().
Cancel_Nothing ==
  /\ running = "sup"
  /\ sup = "cancel"
  /\ LET stuck == {r \in RunIdSet : ~TaskDone(pc, r)}
     IN /\ pc' = pc
        /\ snap' = snap
        /\ lock' = lock
        /\ IF stuck # {}
           THEN sup' = "yield0" /\ running' = "none"
           ELSE sup' = "scan" /\ running' = "sup"
  /\ UNCHANGED <<doc, runFile, last, nops, retries, merged, prev_progress, elapsed,
                 todo, done_ret, unfinished, pending0>>

\* After the loop: cancel the tasks that are not done.
Cancel ==
  /\ running = "sup"
  /\ sup = "cancel"
  /\ LET stuck == {r \in RunIdSet : ~TaskDone(pc, r)}
     IN /\ pc' = [r \in RunIds |-> IF r \in stuck THEN "fin" ELSE pc[r]]
        /\ snap' = [r \in RunIds |-> IF r \in stuck THEN <<>> ELSE snap[r]]
        /\ lock' = IF lock \in stuck THEN "" ELSE lock
        /\ IF stuck # {}
           THEN sup' = "yield0" /\ running' = "none"
           ELSE sup' = "scan" /\ running' = "sup"
  /\ UNCHANGED <<doc, runFile, last, nops, retries, merged, prev_progress, elapsed,
                 todo, done_ret, unfinished, pending0>>

\* await asyncio.sleep(0) returns.
Yield0 ==
  /\ running = "none"
  /\ sup = "yield0"
  /\ sup' = "scan"
  /\ running' = "sup"
  /\ UNCHANGED <<doc, runFile, last, nops, pc, lock, snap, retries, merged,
                 prev_progress, elapsed, todo, done_ret, unfinished, pending0>>

\* The sweep reads every private file once.
SweepScan ==
  /\ running = "sup"
  /\ sup = "scan"
  /\ LET done == {r \in RunIdSet : is_run_done(runFile[r], r)}
         classified_only == {r \in RunIdSet \ done : is_run_classified(runFile[r], r)}
     IN /\ todo' = [done |-> done \ merged, classified |-> classified_only \ merged]
        /\ done_ret' = done
  /\ sup' = "sweep"
  /\ UNCHANGED <<doc, runFile, last, nops, pc, running, lock, snap, retries, merged,
                 prev_progress, elapsed, unfinished, pending0>>

\* SweepDone without merged.add(rid).
SweepDone_NotRecorded(rid) ==
  /\ running = "sup"
  /\ sup = "sweep"
  /\ rid \in todo.done
  /\ LET o == merge_run(doc, runFile[rid], rid, "done")
     IN /\ doc' = IF o.wrote THEN o.out ELSE doc
        /\ merged' = merged
        /\ IF o.ret = "raise"
           THEN sup' = "raised" /\ running' = "none"
           ELSE UNCHANGED <<sup, running>>
  /\ todo' = [todo EXCEPT !.done = @ \ {rid}]
  /\ UNCHANGED <<runFile, last, nops, pc, lock, snap, retries, prev_progress, elapsed,
                 done_ret, unfinished, pending0>>

\* The sweep merges a straggler whose private file says done (in the
\* iteration order of a set, which the code does not fix).
SweepDone(rid) ==
  /\ running = "sup"
  /\ sup = "sweep"
  /\ rid \in todo.done
  /\ LET o == merge_run(doc, runFile[rid], rid, "done")
     IN /\ doc' = IF o.wrote THEN o.out ELSE doc
        /\ merged' = IF o.ret = "True" THEN merged \cup {rid} ELSE merged
        /\ IF o.ret = "raise"
           THEN sup' = "raised" /\ running' = "none"
           ELSE UNCHANGED <<sup, running>>
  /\ todo' = [todo EXCEPT !.done = @ \ {rid}]
  /\ UNCHANGED <<runFile, last, nops, pc, lock, snap, retries, prev_progress, elapsed,
                 done_ret, unfinished, pending0>>

\* SweepClassified without the promotion to done.
SweepClassified_NoPromotion(rid) ==
  /\ running = "sup"
  /\ sup = "sweep"
  /\ todo.done = {}
  /\ rid \in todo.classified
  /\ LET o == merge_run(doc, runFile[rid], rid, "classified")
     IN /\ doc' = IF o.wrote THEN o.out ELSE doc
        /\ merged' = IF o.ret = "True" THEN merged \cup {rid} ELSE merged
        /\ done_ret' = IF o.ret = "True" THEN done_ret \cup {rid} ELSE done_ret
        /\ IF o.ret = "raise"
           THEN sup' = "raised" /\ running' = "none"
           ELSE UNCHANGED <<sup, running>>
  /\ todo' = [todo EXCEPT !.classified = @ \ {rid}]
  /\ UNCHANGED <<runFile, last, nops, pc, lock, snap, retries, prev_progress, elapsed,
                 unfinished, pending0>>

\* The sweep merges a straggler whose private file says classified, and
\* promotes it to done in the Document.
SweepClassified(rid) ==
  /\ running = "sup"
  /\ sup = "sweep"
  /\ todo.done = {}
  /\ rid \in todo.classified
  /\ LET o == merge_run(doc, runFile[rid], rid, "classified")
     IN /\ doc' = IF o.ret = "True" THEN promote_run_status(o.out, rid)
                  ELSE IF o.wrote THEN o.out ELSE doc
        /\ merged' = IF o.ret = "True" THEN merged \cup {rid} ELSE merged
        /\ done_ret' = IF o.ret = "True" THEN done_ret \cup {rid} ELSE done_ret
        /\ IF o.ret = "raise"
           THEN sup' = "raised" /\ running' = "none"
           ELSE UNCHANGED <<sup, running>>
  /\ todo' = [todo EXCEPT !.classified = @ \ {rid}]
  /\ UNCHANGED <<runFile, last, nops, pc, lock, snap, retries, prev_progress, elapsed,
                 unfinished, pending0>>

\* _classify_all returning without its final rebuild.
Finish_NoRebuild ==
  /\ running = "sup"
  /\ sup = "sweep"
  /\ todo = NoTodo
  /\ LET o == Outcome("None", doc, FALSE)
     IN /\ doc' = IF o.wrote THEN o.out ELSE doc
        /\ IF o.ret = "raise"
           THEN sup' = "raised" /\ running' = "none" /\ UNCHANGED unfinished
           ELSE /\ sup' = "ret"
                /\ running' = "sup"
                /\ unfinished' = unfinished \cup (RunIdSet \ merged)
  /\ UNCHANGED <<runFile, last, nops, pc, lock, snap, retries, merged, prev_progress,
                 elapsed, todo, done_ret, pending0>>

\* The last rebuild of the index; _classify_all returns (done, unfinished).
Finish ==
  /\ running = "sup"
  /\ sup = "sweep"
  /\ todo = NoTodo
  /\ LET o == IF merged # {} THEN rebuild_categories_section(doc)
              ELSE Outcome("None", doc, FALSE)
     IN /\ doc' = IF o.wrote THEN o.out ELSE doc
        /\ IF o.ret = "raise"
           THEN sup' = "raised" /\ running' = "none" /\ UNCHANGED unfinished
           ELSE /\ sup' = "ret"
                /\ running' = "sup"
                /\ unfinished' = unfinished \cup (RunIdSet \ merged)
  /\ UNCHANGED <<runFile, last, nops, pc, lock, snap, retries, merged, prev_progress,
                 elapsed, todo, done_ret, pending0>>

\* run_orchestrator marks what is unfinished as error and returns.
MarkUnfinished ==
  /\ running = "sup"
  /\ sup = "ret"
  /\ doc' = IF unfinished # {} THEN mark_runs_as_error(doc, Sorted(RunOrder, unfinished))
            ELSE doc
  /\ sup' = "returned"
  /\ running' = "none"
  /\ UNCHANGED <<runFile, last, nops, pc, lock, snap, retries, merged, prev_progress,
                 elapsed, todo, done_ret, unfinished, pending0>>

\* run() reporting success whatever the Document holds.
Exit_AlwaysZero ==
  /\ sup = "returned"
  /\ sup' = "exit0"
  /\ UNCHANGED <<doc, runFile, last, nops, pc, running, lock, snap, retries, merged,
                 prev_progress, elapsed, todo, done_ret, unfinished, pending0>>

\* run() after asyncio.run returned: 0 if the Document has a done run, else 1.
Exit ==
  /\ sup = "returned"
  /\ sup' = IF get_runs_by_status(doc, "done") # <<>> THEN "exit0" ELSE "exit1"
  /\ UNCHANGED <<doc, runFile, last, nops, pc, running, lock, snap, retries, merged,
                 prev_progress, elapsed, todo, done_ret, unfinished, pending0>>

Next ==
  \/ RunStart
  \/ \E t \in RunIds : TaskStart(t)
  \/ \E t \in RunIds : \E f \in AgentFiles(t) : AgentWrite(t, f)
  \/ \E t \in RunIds : Crash(t)
  \/ \E t \in RunIds : Result1(t)
  \/ \E t \in RunIds : MergeRead(t)
  \/ \E t \in RunIds : MergeWrite(t)
  \/ \E t \in RunIds : Rebuild(t)
  \/ \E t \in RunIds : Result2(t)
  \/ Poll
  \/ Cancel
  \/ Yield0
  \/ SweepScan
  \/ \E rid \in RunIds : SweepDone(rid)
  \/ \E rid \in RunIds : SweepClassified(rid)
  \/ Finish
  \/ MarkUnfinished
  \/ Exit

Spec == Init /\ [][Next]_vars

(***************************************************************************)
(* Properties of the helpers, under SpecOps.                                *)
(***************************************************************************)

\* C5: mark_runs_as_error(doc, ids) sets the status to error for exactly the
\* listed ids whose status is pending; every other item keeps its status, and
\* when no listed id is pending the whole Document is unchanged.
C5_ConditionalErrorExact ==
  last.op = "mark" =>
    /\ \A rid \in RunIds :
         StatusOf(doc, rid) =
           IF InSeq(rid, last.ids) /\ StatusOf(last.before, rid) = "pending"
           THEN "error" ELSE StatusOf(last.before, rid)
    /\ (\A i \in 1..Len(last.ids) : StatusOf(last.before, last.ids[i]) # "pending")
         => doc = last.before

\* C7: merge_run changes only what lies between the BEGIN and END markers of
\* rid's record: the Document before the record and the Document after it,
\* hence every other record and the Categories section, are left as they were,
\* whatever the private record holds and whatever the call's outcome.
C7_MergeFrame ==
  last.op = "merge" =>
    LET d == FindRecord(last.before, last.rid)
        tail == Len(last.before) - d[2]
    IN IF d = <<0, 0>> THEN doc = last.before
       ELSE /\ Len(doc) >= (d[1] - 1) + tail
            /\ SubSeq(doc, 1, d[1] - 1) = SubSeq(last.before, 1, d[1] - 1)
            /\ SubSeq(doc, Len(doc) - tail + 1, Len(doc))
                 = SubSeq(last.before, d[2] + 1, Len(last.before))
            /\ \A r \in RunIds \ {last.rid} :
                 extract_record(doc, r) = extract_record(last.before, r)
            /\ FindCategories(doc) = FindCategories(last.before)

\* C7 witness: a merge replaced a record that has another record after it and
\* another call's result before it.
C7_Witness ==
  /\ last.op = "merge"
  /\ last.ret = "True"
  /\ doc # last.before
  /\ \E r \in RunIds \ {last.rid} :
       /\ extract_record(last.before, r) # <<>>
       /\ FindRecord(last.before, r)[1] > FindRecord(last.before, last.rid)[2]

\* C8: merge_run returns True exactly when the private file holds a record of
\* rid, the Document holds one, and the Document's record has the expected
\* status after the write; otherwise it returns False, and it never raises.
C8_MergeResult ==
  last.op = "merge" =>
    /\ last.ret \in {"True", "False"}
    /\ last.ret = "True" <=>
         /\ extract_record(last.file, last.rid) # <<>>
         /\ extract_record(last.before, last.rid) # <<>>
         /\ InSeq(last.rid, get_runs_by_status(doc, last.expected))

\* C5 failing input: a listed run that is done, followed in the Document by a
\* pending run that is not listed.
C5_FailingInput ==
  /\ last.op = "mark"
  /\ \E i \in 1..Len(last.ids) : StatusOf(last.before, last.ids[i]) = "done"
  /\ \E r \in RunIds :
       /\ ~InSeq(r, last.ids)
       /\ StatusOf(last.before, r) = "pending"
       /\ StatusOf(doc, r) = "error"

(***************************************************************************)
(* Properties of the run, under Spec.                                      *)
(***************************************************************************)
\* The labels of a task that has not yet committed its phase-1 merge.
BeforePhase1Merge == {"start", "p1", "l1", "m1", "w1"}

\* The labels between the acquisition of merge_lock and the end of the
\* rebuild that follows the merge.
InMerge == {"m1", "w1", "r1", "m2", "w2", "r2"}

C3_StaleStops == sup = "sleep" => elapsed < StalePolls

\* C4: after a task's merge returned True, the Document holds exactly the
\* record of the task's private file.
C4_MergedRecordIsPrivateRecord ==
  \A t \in RunIds :
    pc[t] \in {"r1", "r2"} => extract_record(doc, t) = extract_record(runFile[t], t)

\* C6: when run_orchestrator returns, every run that was pending at its
\* start is done or error in the Document.
C6_FinalOutcome ==
  sup = "returned" =>
    \A i \in 1..Len(pending0) : StatusOf(doc, pending0[i]) \in {"done", "error"}

\* The runs whose private file shows classified, and not done.
ClassifiedOnly ==
  {r \in RunIdSet : ~InSeq(r, get_runs_by_status(runFile[r], "done"))
                    /\ InSeq(r, get_runs_by_status(runFile[r], "classified"))}

\* C9: when _classify_all returns, a run whose private file shows classified
\* (no task made its final merge) is done in the Document, is in the
\* returned done set and is not in unfinished.
C9_StragglerPromotion ==
  sup = "ret" =>
    \A r \in ClassifiedOnly :
      /\ StatusOf(doc, r) = "done"
      /\ r \in done_ret
      /\ r \notin unfinished

\* C9 witness: _classify_all returns with a promoted straggler.
C9_Witness ==
  /\ sup = "ret"
  /\ \E r \in ClassifiedOnly : StatusOf(doc, r) = "done" /\ r \in merged

\* C10: neither _classify_all nor run_orchestrator raises.
C10_NeverRaises == sup # "raised"

(***************************************************************************)
(* Properties of the index.                                                *)
(***************************************************************************)
\* The Index Section: what lies between the CATEGORIES START and END markers.
IndexOf(content) ==
  LET c == FindCategories(content)
  IN IF c = <<0, 0>> THEN <<>> ELSE SubSeq(content, c[1] + 1, c[2] - 1)

\* The sub-items of the items whose status is classified or done, in
\* document order.
RECURSIVE SubItemsOf(_)
SubItemsOf(blocks) ==
  IF blocks = <<>> THEN <<>>
  ELSE (IF parse_field(Head(blocks).body, "STATUS") \in {"classified", "done"}
        THEN JobBodiesFrom(Head(blocks).body, 1) ELSE <<>>)
       \o SubItemsOf(Tail(blocks))

SubItems(content) == SubItemsOf(RunBlocks(content))

\* The sub-item has a non-empty, validly-prefixed category with this
\* two-segment key.
Carries(job, key) ==
  LET c == parse_field(job, "CAT")
  IN c # "" /\ StartsWithValid(c) /\ CatKey(c) = key

IndexKeys(content) ==
  {k \in SeqToSet(SortedKeys) :
     \E i \in 1..Len(SubItems(content)) : Carries(SubItems(content)[i], k)}

\* The first non-empty summary among the sub-items carrying the key, cut to
\* the display length; "" when every one of them is empty.
FirstSummary(content, key) ==
  LET js == SubItems(content)
      ne == {i \in 1..Len(js) : Carries(js[i], key) /\ parse_field(js[i], "SUM") # ""}
  IN IF ne = {} THEN "" ELSE Truncate(parse_field(js[Min(ne)], "SUM"))

C13_IndexValue ==
  (last.op = "rebuild" /\ last.ret = "None") =>
    \A i \in 1..Len(IndexOf(doc)) :
      IndexOf(doc)[i].k = "IDX" =>
        IndexOf(doc)[i].b = FirstSummary(doc, IndexOf(doc)[i].a)

\* C13 failing input: the first sub-item of a key has an empty summary, a
\* later one has a summary, and the entry is left without description.
C13_FailingInput ==
  /\ last.op = "rebuild"
  /\ last.ret = "None"
  /\ \E i \in 1..Len(IndexOf(doc)) :
       /\ IndexOf(doc)[i].k = "IDX"
       /\ IndexOf(doc)[i].b = ""
       /\ FirstSummary(doc, IndexOf(doc)[i].a) # ""

\* C14: after a rebuild the Index Section holds exactly one entry per key of
\* IndexKeys, and the placeholder when there is none.
C14_IndexKeySet ==
  last.op = "rebuild" =>
    LET ix == IndexOf(doc)
    IN IF IndexKeys(doc) = {} THEN ix = <<NoneYetTok>>
       ELSE /\ \A i \in 1..Len(ix) : ix[i].k = "IDX"
            /\ {ix[i].a : i \in 1..Len(ix)} = IndexKeys(doc)
            /\ Len(ix) = Cardinality(IndexKeys(doc))

\* C14 failing input: a rebuild that raised and left the section as it was,
\* without the entry of a record's key.
C14_FailingInput ==
  /\ last.op = "rebuild"
  /\ last.ret = "raise"
  /\ IndexOf(doc) = <<NoneYetTok>>
  /\ IndexKeys(doc) # {}

\* The ids of the items whose status field is status, in document order.
RECURSIVE ItemsWithStatus(_, _)
ItemsWithStatus(blocks, status) ==
  IF blocks = <<>> THEN <<>>
  ELSE (IF parse_field(Head(blocks).body, "STATUS") = status
        THEN <<Head(blocks).rid>> ELSE <<>>)
       \o ItemsWithStatus(Tail(blocks), status)

\* C15: get_runs_by_status returns exactly the ids of the items whose status
\* field equals the status asked for, in document order.
C15_StatusScanExact ==
  last.op = "scan" =>
    last.res = ItemsWithStatus(RunBlocks(last.before), last.expected)

\* C15 failing input: a scan for done returns an item whose status field is
\* pending.
C15_FailingInput ==
  /\ last.op = "scan"
  /\ last.expected = "done"
  /\ \E i \in 1..Len(last.res) : StatusOf(last.before, last.res[i]) = "pending"

\* The Document has a record of the run.
HasRecord(content, rid) ==
  \E i \in 1..Len(RunBlocks(content)) : RunBlocks(content)[i].rid = rid

SomeDone == \E r \in RunIds : StatusOf(doc, r) = "done"

\* C17: run() returns 0 if some item of the Document has status done after
\* orchestration, and 1 otherwise.
C17_ExitStatus ==
  sup \in {"exit0", "exit1", "raised"} => sup = IF SomeDone THEN "exit0" ELSE "exit1"

\* C17 failing input: the orchestration raised while an item of the Document
\* has status done, and run() returns nothing.
C17_FailingInput == sup = "raised" /\ SomeDone

C19_Partition ==
  sup = "ret" =>
    LET unf == RunIdSet \ merged
    IN /\ done_ret \cap unf = {}
       /\ done_ret \cup unf = RunIdSet
       /\ \A r \in RunIdSet : r \in done_ret <=> StatusOf(doc, r) = "done"

\* C19 witness: _classify_all returns with one run done and one unfinished.
C19_Witness ==
  /\ sup = "ret"
  /\ done_ret # {}
  /\ RunIdSet \ merged # {}
  /\ done_ret \cup (RunIdSet \ merged) = RunIdSet

\* The status changes of an item that the state machine has.
StatusStep(old, new) ==
  \/ new = old
  \/ old = "pending" /\ new \in {"classified", "error"}
  \/ old = "classified" /\ new = "done"

\* The step is the sweep's merge of rid as a classified straggler followed
\* by its promotion: two writes of the Document, the first of which leaves
\* the item at classified.
MergeThenPromote(rid) ==
  /\ sup = "sweep"
  /\ rid \in todo.classified
  /\ rid \notin todo'.classified
  /\ StatusOf(doc, rid) \in {"pending", "classified"}
  /\ StatusOf(doc', rid) = "done"

\* C20: the status of an item in the Document changes only from pending to
\* classified, from classified to done or from pending to error.
C20_StatusMachine ==
  [][\A r \in RunIds :
       StatusStep(StatusOf(doc, r), StatusOf(doc', r)) \/ MergeThenPromote(r)]_vars

\* C20 failing input: the sweep is about to merge a private file that says
\* done into a Document where the item is still pending.
C20_FailingInput ==
  /\ sup = "sweep"
  /\ running = "sup"
  /\ \E r \in todo.done :
       /\ StatusOf(doc, r) = "pending"
       /\ merge_run(doc, runFile[r], r, "done").ret = "True"

\* C19 failing input: _classify_all returns a run in done whose status field
\* in the Document is classified.
C19_FailingInput ==
  /\ sup = "ret"
  /\ \E r \in done_ret : r \in merged /\ StatusOf(doc, r) = "classified"

\* The step is a merge of r that returned True: the final merge of its task,
\* or the sweep's merge of it as a done or a classified straggler.
AddedByMerge(r) ==
  \/ /\ running = r
     /\ pc[r] = "w2"
     /\ merge_run(snap[r], runFile[r], r, "done").ret = "True"
  \/ /\ sup = "sweep"
     /\ r \in todo.done
     /\ merge_run(doc, runFile[r], r, "done").ret = "True"
  \/ /\ sup = "sweep"
     /\ r \in todo.classified
     /\ merge_run(doc, runFile[r], r, "classified").ret = "True"

\* C21: a run enters merged only by a merge of it that returned True, and
\* every run in merged has status done in the Document from then on.
C21_MergedSound ==
  [][/\ \A r \in merged' \ merged : AddedByMerge(r)
     /\ \A r \in merged' : StatusOf(doc', r) = "done"]_vars

\* C21 failing input: a run is in merged while its status field in the
\* Document is classified.
C21_FailingInput ==
  \E r \in merged : StatusOf(doc, r) = "classified" /\ is_run_done(doc, r)

\* C21, for what the code's own scan reports: a run enters merged only by a
\* merge of it that returned True, and the scan for done lists every run in
\* merged from then on.
C21_MergedScannedDone ==
  [][/\ \A r \in merged' \ merged : AddedByMerge(r)
     /\ \A r \in merged' : is_run_done(doc', r)]_vars

\* C22: a task whose phase ends with the completion check false (private
\* file not classified after phase 1, not done after phase 2) ends there,
\* without merge, rebuild or further prompt; a task that has ended writes
\* nothing, and only the poll loop starts a new one.
C22_IncompleteNoMerge ==
  [][\A t \in RunIds :
       /\ (pc[t] = "p1" /\ pc'[t] # "p1" /\ ~is_run_classified(runFile[t], t))
            => (pc'[t] = "fin" /\ doc' = doc /\ merged' = merged)
       /\ (pc[t] = "p2" /\ pc'[t] # "p2" /\ ~is_run_done(runFile[t], t))
            => (pc'[t] = "fin" /\ doc' = doc /\ merged' = merged)
       /\ (pc[t] = "fin" /\ pc'[t] # "fin") => (sup = "sleep" /\ pc'[t] = "start")
       /\ (pc[t] = "fin" /\ doc' # doc)
            => \/ sup \in {"sweep", "ret"}
               \/ \E u \in RunIds \ {t} : running = u /\ pc[u] \in {"w1", "w2", "r1", "r2"}]_vars

\* C22 witness: a task ended with its private file at pending, its record
\* in the Document is still pending, and another task is in phase 2.
C22_Witness ==
  \E t, u \in RunIds :
    /\ pc[t] = "fin"
    /\ retries[t] = max_retries
    /\ StatusOf(runFile[t], t) = "pending"
    /\ StatusOf(doc, t) = "pending"
    /\ pc[u] = "p2"
    /\ t \notin merged

\* C23: a run has one task at a time: the poll loop creates a task for a run
\* only when the run's previous task has finished, and never when the run's
\* private file shows done; nothing else creates a task after the launch.
C23_SingleOwner ==
  [][\A t \in RunIds :
       (pc[t] \notin {"none", "start"} /\ pc'[t] = "start")
         => /\ sup = "sleep"
            /\ pc[t] = "fin"
            /\ StatusOf(runFile[t], t) # "done"
            /\ ~is_run_done(runFile[t], t)
            /\ retries'[t] = retries[t] + 1]_vars

\* C23 witness: a relaunched task is in phase 1 while the task of another run
\* is in phase 2.
C23_Witness ==
  \E t, u \in RunIds :
    /\ retries[t] = 1
    /\ pc[t] = "p1"
    /\ pc[u] = "p2"
    /\ sup = "sleep"

\* run_id_set - done, as a pass of the poll loop computes it.
Remaining == {r \in RunIdSet : ~is_run_done(runFile[r], r)}

\* C24: a run is relaunched at most max_retries times, each relaunch counted
\* once, and the poll loop leaves through its "all agents exited" branch only
\* when the task of every remaining run has finished with its retry count at
\* max_retries.
C24_BoundedRetries ==
  [][/\ \A r \in RunIds :
          /\ retries'[r] <= max_retries
          /\ retries'[r] \in {retries[r], retries[r] + 1}
          /\ (pc[r] \notin {"none", "start"} /\ pc'[r] = "start")
               => retries'[r] = retries[r] + 1
     /\ (sup = "sleep" /\ sup' = "cancel" /\ Remaining # {}
         /\ \A r \in Remaining : pc'[r] = "fin")
          => \A r \in Remaining : pc[r] = "fin" /\ retries[r] = max_retries]_vars

\* C24 witness: the poll loop has left with a run not done, its task
\* finished and its retries used up, before the stale timeout.
C24_Witness ==
  /\ sup = "cancel"
  /\ elapsed < StalePolls
  /\ Remaining # {}
  /\ \A r \in Remaining : pc[r] = "fin" /\ retries[r] = max_retries

\* The BEGIN and END markers of content, in order.
RECURSIVE MarkersOf(_)
MarkersOf(content) ==
  IF content = <<>> THEN <<>>
  ELSE (IF Head(content).k \in {"BEGIN", "END"} THEN <<Head(content)>> ELSE <<>>)
       \o MarkersOf(Tail(content))

\* content holds whole records only: the markers pair up, each BEGIN with
\* the END of its run right after it, every record starts with its status
\* line, and every run of the model has one record at most.
WholeRecords(content) ==
  LET ms == MarkersOf(content)
  IN /\ Len(ms) % 2 = 0
     /\ \A i \in 1..Len(ms) :
          IF i % 2 = 1 THEN ms[i].k = "BEGIN" /\ ms[i+1] = EndTok(ms[i].a)
          ELSE ms[i].k = "END"
     /\ \A i, j \in 1..Len(ms) : (i # j /\ ms[i] = ms[j]) => FALSE
     /\ \A i \in 1..Len(content) :
          content[i].k = "BEGIN" => (i < Len(content) /\ content[i+1].k = "STATUS")

AfterCancel == {"yield0", "scan", "sweep", "ret", "returned"}

\* C26: once the poll loop has ended and the tasks that were not done have
\* been cancelled, no task takes a step, the merge lock is free and stays
\* free through the sweep, and only the sweep and the final rebuild and error
\* marking of the orchestrator write the Document.
C26_QuiescentSweep ==
  [][(sup \in AfterCancel) =>
       /\ \A t \in RunIds : pc[t] \in {"none", "fin"} /\ pc'[t] = pc[t]
       /\ lock = "" /\ lock' = ""
       /\ doc' # doc => (sup \in {"sweep", "ret"} /\ running = "sup")]_vars

\* C26 witness: after a stale timeout and a cancellation the sweep has
\* merged a straggler, with the lock free.
C26_Witness ==
  /\ sup = "sweep"
  /\ todo = NoTodo
  /\ elapsed >= StalePolls
  /\ \E r \in merged : retries[r] = 0 /\ StatusOf(doc, r) = "done"
  /\ lock = ""

\* C27: a task is sent the recheck prompt only from the rebuild that follows
\* its own phase-1 merge, holding the thread since the merge, with its record
\* verified as classified in the Document; at that moment the Index Section
\* is the full recompute over the Document's records, entries of the other
\* runs' committed results included.
C27_IndexBeforePhase2 ==
  [][\A t \in RunIds :
       (pc[t] # "p2" /\ pc'[t] = "p2")
         => /\ pc[t] = "r1"
            /\ running = t
            /\ is_run_classified(doc', t)
            /\ LET o == rebuild_categories_section(doc')
               IN o.ret = "None" /\ o.out = doc'
            /\ \A k \in IndexKeys(doc') :
                 \E i \in 1..Len(IndexOf(doc')) :
                   IndexOf(doc')[i].k = "IDX" /\ IndexOf(doc')[i].a = k]_vars

\* C27 witness: a task has just been sent the recheck prompt; the index has
\* its entry and the record of another run, committed earlier, is in the
\* Document as classified.
C27_Witness ==
  \E t, u \in RunIds :
    /\ t # u
    /\ pc[t] = "p2"
    /\ runFile[t] = extract_record(doc, t) \o <<NlTok>>
    /\ StatusOf(doc, t) = "classified"
    /\ pc[u] = "p2"
    /\ StatusOf(doc, u) = "classified"
    /\ IndexOf(doc) = <<IdxTok("test-flake/timeout", "plain")>>

\* The private file is the one split_progress writes for rid from content.
SplitOf(file, content, rid) ==
  /\ extract_record(content, rid) # <<>>
  /\ file = extract_record(content, rid) \o <<NlTok>>

\* C28: the private file written by split holds the record as it is in the
\* Document; after a merge that returned True the Document's record is the
\* record of the private file; and merging back the file split wrote, with
\* the status the record has, returns True and leaves the Document as it was.
C28_VerbatimRoundTrip ==
  /\ last.op = "split" =>
       \A i \in 1..Len(last.res) : SplitOf(runFile[last.res[i]], last.before, last.res[i])
  /\ (last.op = "merge" /\ last.ret = "True") =>
       extract_record(doc, last.rid) = extract_record(last.file, last.rid)
  /\ (last.op = "merge" /\ SplitOf(last.file, last.before, last.rid)
      /\ last.expected = StatusOf(last.before, last.rid)) =>
       (last.ret = "True" /\ doc = last.before)

\* C28 failing input: the file split wrote was merged back unmodified, the
\* merge returned True and the Document is not what it was.
C28_FailingInput ==
  /\ last.op = "merge"
  /\ SplitOf(last.file, last.before, last.rid)
  /\ last.expected = StatusOf(last.before, last.rid)
  /\ last.ret = "True"
  /\ doc # last.before

\* C29: whenever merge_run returns False, the Document is what it was before
\* the call.
C29_FailedMergeNoTrace ==
  (last.op = "merge" /\ last.ret = "False") => doc = last.before

\* C29 failing input: merge_run found both records, wrote the Document, the
\* scan for the expected status did not list the run, and the call returned
\* False with the Document holding the record of the private file.
C29_FailingInput ==
  /\ last.op = "merge"
  /\ last.ret = "False"
  /\ extract_record(last.file, last.rid) # <<>>
  /\ extract_record(last.before, last.rid) # <<>>
  /\ doc # last.before
  /\ extract_record(doc, last.rid) = extract_record(last.file, last.rid)

\* The labels of a task inside `async with merge_lock`.
InLock == {"m1", "w1", "m2", "w2"}

\* C30: the merge lock is never contended. A task that goes from its event
\* loop to a lock acquisition finds the lock free and takes it in the same
\* step; the tasks the supervisor cancels are none of them waiting for the
\* lock; and while a task runs the rebuild after its merge the lock is free
\* and no other task is inside a merge or a rebuild.
C30_LockUncontended ==
  [][/\ \A t \in RunIds :
          (pc[t] \in {"p1", "p2"} /\ pc'[t] \notin {pc[t], "fin"}) =>
            (lock = "" /\ lock' = t /\ pc'[t] \in InLock)
     /\ (sup = "cancel") => \A t \in RunIds : pc[t] \notin {"l1", "l2"}
     /\ \A t \in RunIds :
          pc'[t] \in {"r1", "r2"} =>
            (lock' = "" /\ \A u \in RunIds \ {t} : pc'[u] \notin InMerge)]_vars

\* C30 witness: a task runs the rebuild after its merge, the lock released,
\* while another task of the pool is in a phase's event loop and has still
\* its own merge to make.
C30_Witness ==
  \E t, u \in RunIds :
    /\ t # u
    /\ pc[t] \in {"r1", "r2"}
    /\ lock = ""
    /\ pc[u] \in {"p1", "p2"}
    /\ u \notin merged

====
